---- MODULE Spec2Model ----
(***************************************************************************)
(* Model of the write-ahead log of e-db: LogManager (src/src/log/mod.rs)   *)
(* on top of PageManager (src/src/page/mod.rs).                            *)
(*                                                                         *)
(* The log file is modelled as the flat byte sequence the operating system *)
(* stores; a page at position p occupies bytes p*PageSize+1 ..             *)
(* (p+1)*PageSize of it (TLA+ sequences are 1-based, Rust slices 0-based). *)
(* A disk write can succeed, or fail with an I/O error after having        *)
(* written any proper prefix of the page (write_all), or nothing (seek).   *)
(*                                                                         *)
(* Buffer (src/src/cache/mod.rs) and PageManager used on its own have      *)
(* their own specifications, SpecBuffer and SpecPages, over the same       *)
(* variables.                                                              *)
(***************************************************************************)
EXTENDS Integers, Sequences, FiniteSets, TLC

\* ---------------------------------------------------------------- bounds
\* page_size handed to LogManager::new
PageSize == 4
\* successful appends explored on one log file
MaxLsn == 3
\* first bytes of the records handed to append
FirstBytes == {65, 70}

\* pages of the file of a PageManager used on its own: append_page is
\* explored while the file is shorter, read_page and write_page at the
\* positions below
MaxPages == 3
\* calls of PageManager::write_page explored on one file
MaxWrites == 1
\* I/O errors of write_page and append_page explored on one file
MaxFailures == 1
\* calls of Buffer::pin and of Buffer::unpin explored on one Buffer
MaxPins == 3
MaxUnpins == 3

\* ------------------------------------------------------ program constants
\* usize::MAX, the value a pin count of 0 wraps to; TLC's integers end at
\* 2^31 - 1, which stands for it
UsizeMax == 2147483647
\* size_of::<u16>(): the width of the offset header
HeaderSize == 2
\* u16 to_be_bytes / from_be_bytes work on base-256 digits
ByteBase == 256

\* A record of n bytes starting with byte b: b, b+1, ..., b+n-1, so that a
\* reversed or shifted copy of a record differs from the record.
Record(b, n) == [i \in 1..n |-> b + i - 1]

\* The inputs of append: the empty record, every record that can fit in a
\* page (1 .. PageSize-2 bytes) and records that are one byte too long.
Records == {<<>>} \cup {Record(b, n) : b \in FirstBytes, n \in 1..(PageSize - HeaderSize + 1)}

VARIABLES
  file,                \* PageManager.file: the bytes of the log file
  tail,                \* LogManager.tail: [data, position]
  latest_lsn,          \* LogManager.latest_lsn
  latest_flushed_lsn,  \* LogManager.latest_flushed_lsn
  op,                  \* the last call: "new", "append", "flush", "flush_since_lsn"
  arg_data,            \* the data of the last append
  arg_lsn,             \* the lsn of the last flush_since_lsn
  result,              \* what the last call returned: "Ok", "InvalidInput", "IoError"
  flushed,             \* whether the last call ran LogManager::flush
  appended             \* history: the records appended to the file with success,
                       \* oldest first, each with the page position and offset it
                       \* was written at
  ,
  buffer,              \* Buffer: [page, page_position, tx_id, lsn, pins]
  build,               \* the build profile: "debug" (debug_assert! and overflow
                       \* checks compiled in) or "release" (neither)
  panicked,            \* the thread using the Buffer has panicked
  buf_op,              \* the last Buffer call: "new", "pin", "unpin", "mark_modified"
  buf_arg,             \* the arguments of the last mark_modified: [tx_id, lsn]
  n_pin,               \* history: the calls of pin
  n_unpin,             \* history: the calls of unpin
  misused,             \* history: unpin has been called with a pin count of 0
  pm_op,               \* the last PageManager call made directly: "new", "read_page",
                       \* "write_page", "append_page", "n_pages"
  pm_arg,              \* its arguments: [position, page]
  pm_result,           \* what it returned: [result, data, n], data the page read,
                       \* n the position or the number of pages returned
  pm_appended,         \* history: the successful append_page calls, oldest first,
                       \* each with its page and the position it returned
  pm_writes,           \* history: the calls of write_page made directly
  pm_failures          \* history: the I/O errors of write_page and append_page

logvars == <<file, tail, latest_lsn, latest_flushed_lsn, op, arg_data, arg_lsn,
             result, flushed, appended>>

bufvars == <<buffer, build, panicked, buf_op, buf_arg, n_pin, n_unpin, misused>>

\* the LogManager without its file
lmvars == <<tail, latest_lsn, latest_flushed_lsn, op, arg_data, arg_lsn,
            result, flushed, appended>>

pmvars == <<pm_op, pm_arg, pm_result, pm_appended, pm_writes, pm_failures>>

vars == <<logvars, bufvars, pmvars>>

\* ------------------------------------------------------------------ Page
\* Page::new: page_size zero bytes
Page_new(page_size) == [i \in 1..page_size |-> 0]

\* Page::set_offset: the offset as a big-endian u16 in bytes [0..2)
set_offset(data, offset) ==
  [data EXCEPT ![1] = (offset \div ByteBase) % ByteBase, ![2] = offset % ByteBase]

\* Page::get_offset: the big-endian u16 in bytes [0..2)
get_offset(data) == data[1] * ByteBase + data[2]

\* ------------------------------------------------------------ PageManager
Max(a, b) == IF a >= b THEN a ELSE b

\* seek(Start(offset)) then write of bytes: overwrites in place, extends the
\* file when the write ends beyond EOF, zero-fills a gap; writing no byte
\* changes nothing.
write_at(f, offset, bytes) ==
  IF Len(bytes) = 0 THEN f
  ELSE [i \in 1..Max(Len(f), offset + Len(bytes)) |->
          IF i > offset /\ i <= offset + Len(bytes) THEN bytes[i - offset]
          ELSE IF i <= Len(f) THEN f[i]
          ELSE 0]

\* A write_page that ignores the position and writes at the end of the file,
\* as append_page does.
write_page_at_end(f, position, data) ==
  {[file |-> write_at(f, Len(f), data), result |-> "Ok"]}
  \cup {[file |-> write_at(f, Len(f), SubSeq(data, 1, k)),
         result |-> "IoError"] : k \in 0..(PageSize - 1)}

\* A write_page that forgets the seek and writes at the start of the file.
write_page_at_start(f, position, data) ==
  {[file |-> write_at(f, 0, data), result |-> "Ok"]}
  \cup {[file |-> write_at(f, 0, SubSeq(data, 1, k)),
         result |-> "IoError"] : k \in 0..(PageSize - 1)}

\* PageManager::write_page: the outcomes of seek + write_all of a page at
\* position: the whole page is written and Ok is returned, or an I/O error
\* is returned after k < page_size bytes went out (k = 0: the seek failed or
\* the first write failed).
write_page(f, position, data) ==
  {[file |-> write_at(f, position * PageSize, data), result |-> "Ok"]}
  \cup {[file |-> write_at(f, position * PageSize, SubSeq(data, 1, k)),
         result |-> "IoError"] : k \in 0..(PageSize - 1)}

\* PageManager::write_page(&Page) as LogManager calls it: the page carries
\* its own position.
write_page_of(f, page) == write_page(f, page.position, page.data)

\* A read_page that forgets the seek and reads the first page of the file.
read_page_first(f, position) ==
  IF PageSize > Len(f)
  THEN [result |-> "IoError", data |-> <<>>]
  ELSE [result |-> "Ok", data |-> SubSeq(f, 1, PageSize)]

\* A read_page that returns a page of zeroes where the file has ended.
read_page_zero_fill(f, position) ==
  IF (position + 1) * PageSize > Len(f)
  THEN [result |-> "Ok", data |-> [i \in 1..PageSize |-> 0]]
  ELSE [result |-> "Ok",
        data |-> SubSeq(f, position * PageSize + 1, (position + 1) * PageSize)]

\* PageManager::read_page: the page_size bytes at position, or an I/O error
\* (read_exact hits EOF) when the file ends before the end of the page.
read_page(f, position) ==
  IF (position + 1) * PageSize > Len(f)
  THEN [result |-> "IoError", data |-> <<>>]
  ELSE [result |-> "Ok",
        data |-> SubSeq(f, position * PageSize + 1, (position + 1) * PageSize)]

\* PageManager::read_page as LogManager::new calls it: the page that is
\* returned carries the position it was read at.
read_page_at(f, position) ==
  [data |-> read_page(f, position).data, position |-> position]

\* PageManager::n_pages: the file length in pages; the assert panics when
\* the length is no multiple of page_size.
n_pages(f) ==
  IF Len(f) % PageSize = 0
  THEN [result |-> "Ok", n |-> Len(f) \div PageSize]
  ELSE [result |-> "Panic", n |-> 0]

\* PageManager::append_page: the new position is filesize / page_size; the
\* page is written at the end of the file (SeekFrom::End(0)), whole, or in
\* part or not at all when the call fails with an I/O error.
append_page(f, page) ==
  {[file |-> write_at(f, Len(f), page), result |-> "Ok", n |-> Len(f) \div PageSize]}
  \cup {[file |-> write_at(f, Len(f), SubSeq(page, 1, k)),
         result |-> "IoError", n |-> 0] : k \in 0..(PageSize - 1)}

\* The pages handed to write_page and append_page: page_size bytes each
\* (a page of another size makes both panic).
Pages == {Record(b, PageSize) : b \in FirstBytes}

\* ------------------------------------------------------------- LogManager
\* LogManager::new on an empty file / the rollover in append: a zeroed page
\* at position with the offset header set to page_size.
new_tail(position) ==
  [data |-> set_offset(Page_new(PageSize), PageSize), position |-> position]

\* A flush that records one LSN more than has been appended.
flush_ahead(f, t, lsn) ==
  {[file |-> w.file, latest_flushed_lsn |-> lsn + 1, result |-> w.result] :
     w \in write_page_of(f, t)}

\* LogManager::flush: write the tail, set latest_flushed_lsn, return the
\* result of the write.
flush(f, t, lsn) ==
  {[file |-> w.file, latest_flushed_lsn |-> lsn, result |-> w.result] :
     w \in write_page_of(f, t)}

\* A comparison that skips the flush when lsn equals latest_flushed_lsn.
flush_needed_strict(lsn, flushed_lsn) == lsn > flushed_lsn

\* flush_since_lsn, the comparison: lsn >= self.latest_flushed_lsn
flush_needed(lsn, flushed_lsn) == lsn >= flushed_lsn

\* A rollover whose new tail keeps the position of the old one.
rollover_same_position(o, t) == IF o.result = "Ok" THEN new_tail(t.position) ELSE t

\* A rollover that replaces the tail before it looks at the flush's result.
rollover_unchecked(o, t) == new_tail(t.position + 1)

\* append, the tail after `self.flush()?; self.tail = Page::new(position + 1)`:
\* the `?` returns before the tail is replaced when the flush failed.
rollover(o, t) == IF o.result = "Ok" THEN new_tail(t.position + 1) ELSE t

\* A size check that forgets the header.
too_long_lenient(len) == len > PageSize

\* A size check that also refuses the data that fills a page exactly.
too_long_inclusive(len) == len >= PageSize - HeaderSize

\* append, the size check: the data can fit in no page
too_long(len) == len > PageSize - HeaderSize

\* A rollover test that also rolls over when the data fits exactly.
needs_rollover_inclusive(offset, len) == offset - HeaderSize <= len

\* append, the rollover test: freespace < data.len()
needs_rollover(offset, len) == offset - HeaderSize < len

\* A write of the record that forgets to move the header.
write_record_keep_header(data, offset, bytes) ==
  LET new_offset == offset - Len(bytes)
  IN  [i \in 1..Len(data) |->
         IF i > new_offset /\ i <= offset THEN bytes[i - new_offset]
         ELSE data[i]]

\* append, the write of the record: data into [offset - len .. offset), then
\* the header set to offset - len
write_record(data, offset, bytes) ==
  LET new_offset == offset - Len(bytes)
  IN  set_offset([i \in 1..Len(data) |->
                    IF i > new_offset /\ i <= offset THEN bytes[i - new_offset]
                    ELSE data[i]],
                 new_offset)

\* An LSN that counts two per append.
next_lsn_skip(lsn) == lsn + 2

\* latest_lsn += 1 (a u32; MaxLsn keeps the counter far below 2^32, where the
\* addition would overflow)
next_lsn(lsn) == lsn + 1

\* ----------------------------------------------------------------- Buffer
\* the transaction ids and LSNs (i32) handed to mark_modified
TxIds == {-1, 0, 7}
Lsns == {-3, 0, 1, 5}

Builds == {"debug", "release"}

\* Buffer::new
Buffer_new == [page |-> "None", page_position |-> 0, tx_id |-> -1, lsn |-> 1, pins |-> 0]

\* Buffer::pin, `self.pins += 1` on a usize: the addition overflows at
\* usize::MAX, which panics with overflow checks and wraps without.
pin(pins, profile) ==
  IF pins = UsizeMax
  THEN IF profile = "debug"
       THEN [panic |-> TRUE, pins |-> pins]
       ELSE [panic |-> FALSE, pins |-> 0]
  ELSE [panic |-> FALSE, pins |-> pins + 1]

\* An unpin that checks the pin count but forgets to decrement it.
unpin_keep(pins, profile) ==
  IF pins = 0 /\ profile = "debug"
  THEN [panic |-> TRUE, pins |-> pins]
  ELSE [panic |-> FALSE, pins |-> pins]

\* Buffer::unpin, `debug_assert!(self.pins > 0); self.pins -= 1`: with a pin
\* count of 0 the debug build panics in the assertion; the release build
\* has no assertion and no overflow check, and the count wraps to usize::MAX.
unpin(pins, profile) ==
  IF pins = 0
  THEN IF profile = "debug"
       THEN [panic |-> TRUE, pins |-> pins]
       ELSE [panic |-> FALSE, pins |-> UsizeMax]
  ELSE [panic |-> FALSE, pins |-> pins - 1]

\* An is_pinned that takes a pin count of 0 for pinned.
is_pinned_from_zero(pins) == pins >= 0

\* Buffer::is_pinned
is_pinned(pins) == pins > 0

\* A mark_modified that also stores an LSN of 0.
mark_modified_from_zero(b, tx_id, lsn) ==
  [b EXCEPT !.tx_id = tx_id, !.lsn = IF lsn >= 0 THEN lsn ELSE @]

\* Buffer::mark_modified
mark_modified(b, tx_id, lsn) ==
  [b EXCEPT !.tx_id = tx_id, !.lsn = IF lsn > 0 THEN lsn ELSE @]

\* ------------------------------------------------------------------ Init
\* LogManager::new on an empty file
LogManager_init ==
  /\ file = <<>>
  /\ tail = new_tail(0)
  /\ latest_lsn = 0
  /\ latest_flushed_lsn = 0
  /\ op = "new"
  /\ arg_data = <<>>
  /\ arg_lsn = 0
  /\ result = "Ok"
  /\ flushed = FALSE
  /\ appended = <<>>

\* Buffer::new
Buffer_init ==
  /\ buffer = Buffer_new
  /\ panicked = FALSE
  /\ buf_op = "new"
  /\ buf_arg = [tx_id |-> -1, lsn |-> 1]
  /\ n_pin = 0
  /\ n_unpin = 0
  /\ misused = FALSE

\* PageManager::new on an empty file
PageManager_init ==
  /\ pm_op = "new"
  /\ pm_arg = [position |-> 0, page |-> <<>>]
  /\ pm_result = [result |-> "Ok", data |-> <<>>, n |-> 0]
  /\ pm_appended = <<>>
  /\ pm_writes = 0
  /\ pm_failures = 0

Init ==
  /\ LogManager_init
  /\ Buffer_init
  /\ build = "debug"
  /\ PageManager_init

\* LogManager::flush called by the user
LogManager_flush ==
  \E o \in flush(file, tail, latest_lsn) :
    /\ file' = o.file
    /\ latest_flushed_lsn' = o.latest_flushed_lsn
    /\ result' = o.result
    /\ op' = "flush"
    /\ flushed' = TRUE
    /\ arg_data' = <<>>
    /\ arg_lsn' = 0
    /\ UNCHANGED <<tail, latest_lsn, appended>>
    /\ UNCHANGED <<bufvars, pmvars>>

\* LogManager::flush_since_lsn
LogManager_flush_since_lsn ==
  \E lsn \in 0..MaxLsn :
    /\ op' = "flush_since_lsn"
    /\ arg_lsn' = lsn
    /\ arg_data' = <<>>
    /\ UNCHANGED <<tail, latest_lsn, appended>>
    /\ UNCHANGED <<bufvars, pmvars>>
    /\ IF flush_needed(lsn, latest_flushed_lsn)
       THEN \E o \in flush(file, tail, latest_lsn) :
              /\ file' = o.file
              /\ latest_flushed_lsn' = o.latest_flushed_lsn
              /\ result' = o.result
              /\ flushed' = TRUE
       ELSE /\ result' = "Ok"
            /\ flushed' = FALSE
            /\ UNCHANGED <<file, latest_flushed_lsn>>

\* LogManager::append
LogManager_append ==
  /\ Len(appended) < MaxLsn
  /\ UNCHANGED <<bufvars, pmvars>>
  /\ \E data \in Records :
       LET offset == get_offset(tail.data) IN
       /\ op' = "append"
       /\ arg_data' = data
       /\ arg_lsn' = 0
       /\ IF too_long(Len(data))
          THEN /\ result' = "InvalidInput"
               /\ flushed' = FALSE
               /\ UNCHANGED <<file, tail, latest_lsn, latest_flushed_lsn, appended>>
          ELSE IF needs_rollover(offset, Len(data))
          THEN \E o \in flush(file, tail, latest_lsn) :
                 LET t == rollover(o, tail) IN
                 /\ file' = o.file
                 /\ latest_flushed_lsn' = o.latest_flushed_lsn
                 /\ flushed' = TRUE
                 /\ IF o.result # "Ok"
                    THEN /\ result' = o.result
                         /\ tail' = t
                         /\ UNCHANGED <<latest_lsn, appended>>
                    ELSE /\ tail' = [t EXCEPT !.data = write_record(t.data, PageSize, data)]
                         /\ latest_lsn' = next_lsn(latest_lsn)
                         /\ appended' = Append(appended,
                                          [data |-> data,
                                           position |-> t.position,
                                           offset |-> PageSize - Len(data)])
                         /\ result' = "Ok"
          ELSE /\ tail' = [tail EXCEPT !.data = write_record(tail.data, offset, data)]
               /\ latest_lsn' = next_lsn(latest_lsn)
               /\ appended' = Append(appended,
                                [data |-> data,
                                 position |-> tail.position,
                                 offset |-> offset - Len(data)])
               /\ result' = "Ok"
               /\ flushed' = FALSE
               /\ UNCHANGED <<file, latest_flushed_lsn>>

Next == LogManager_append \/ LogManager_flush \/ LogManager_flush_since_lsn

Spec == Init /\ [][Next]_vars

\* LogManager::new on the file a former instance left: the tail is a fresh
\* page when the file is empty, else the last page of the file; the LSN
\* counters start at 0.  When the file length is no multiple of page_size
\* n_pages panics, and when read_page fails new returns the error: no
\* LogManager exists then, and the action is not enabled.
LogManager_new ==
  /\ IF Len(file) = 0
     THEN tail' = new_tail(0)
     ELSE /\ n_pages(file).result = "Ok"
          /\ read_page(file, n_pages(file).n - 1).result = "Ok"
          /\ tail' = read_page_at(file, n_pages(file).n - 1)
  /\ latest_lsn' = 0
  /\ latest_flushed_lsn' = 0
  /\ op' = "new"
  /\ arg_data' = <<>>
  /\ arg_lsn' = 0
  /\ result' = "Ok"
  /\ flushed' = FALSE
  /\ UNCHANGED <<file, appended>>
  /\ UNCHANGED <<bufvars, pmvars>>

NextReopen ==
  LogManager_append \/ LogManager_flush \/ LogManager_flush_since_lsn \/ LogManager_new

\* A log file that LogManager instances open one after the other.
SpecReopen == Init /\ [][NextReopen]_vars

\* Buffer::pin
Buffer_pin ==
  /\ ~panicked
  /\ n_pin < MaxPins
  /\ buffer' = [buffer EXCEPT !.pins = pin(buffer.pins, build).pins]
  /\ panicked' = pin(buffer.pins, build).panic
  /\ buf_op' = "pin"
  /\ n_pin' = n_pin + 1
  /\ UNCHANGED <<build, buf_arg, n_unpin, misused>>
  /\ UNCHANGED <<logvars, pmvars>>

\* Buffer::unpin
Buffer_unpin ==
  /\ ~panicked
  /\ n_unpin < MaxUnpins
  /\ buffer' = [buffer EXCEPT !.pins = unpin(buffer.pins, build).pins]
  /\ panicked' = unpin(buffer.pins, build).panic
  /\ buf_op' = "unpin"
  /\ n_unpin' = n_unpin + 1
  /\ misused' = (misused \/ buffer.pins = 0)
  /\ UNCHANGED <<build, buf_arg, n_pin>>
  /\ UNCHANGED <<logvars, pmvars>>

\* Buffer::mark_modified
Buffer_mark_modified ==
  /\ ~panicked
  /\ \E tx_id \in TxIds, lsn \in Lsns :
       /\ buffer' = mark_modified(buffer, tx_id, lsn)
       /\ buf_arg' = [tx_id |-> tx_id, lsn |-> lsn]
  /\ buf_op' = "mark_modified"
  /\ UNCHANGED <<build, panicked, n_pin, n_unpin, misused>>
  /\ UNCHANGED <<logvars, pmvars>>

\* A new Buffer in a debug or in a release build.
InitBuffer ==
  /\ LogManager_init
  /\ Buffer_init
  /\ build \in Builds
  /\ PageManager_init

NextBuffer == Buffer_pin \/ Buffer_unpin \/ Buffer_mark_modified

SpecBuffer == InitBuffer /\ [][NextBuffer]_vars

\* PageManager::read_page called on a PageManager used on its own
PageManager_read_page ==
  \E position \in 0..(MaxPages - 1) :
    /\ pm_op' = "read_page"
    /\ pm_arg' = [position |-> position, page |-> <<>>]
    /\ pm_result' = [result |-> read_page(file, position).result,
                     data |-> read_page(file, position).data,
                     n |-> 0]
    /\ UNCHANGED <<file, pm_appended, pm_writes, pm_failures>>
    /\ UNCHANGED <<lmvars, bufvars>>

\* PageManager::write_page
PageManager_write_page ==
  /\ pm_writes < MaxWrites
  /\ \E position \in 0..(MaxPages - 1), page \in Pages :
       \E o \in write_page(file, position, page) :
         /\ o.result = "Ok" \/ pm_failures < MaxFailures
         /\ pm_failures' = IF o.result = "Ok" THEN pm_failures ELSE pm_failures + 1
         /\ file' = o.file
         /\ pm_op' = "write_page"
         /\ pm_arg' = [position |-> position, page |-> page]
         /\ pm_result' = [result |-> o.result, data |-> <<>>, n |-> 0]
  /\ pm_writes' = pm_writes + 1
  /\ UNCHANGED pm_appended
  /\ UNCHANGED <<lmvars, bufvars>>

\* PageManager::append_page
PageManager_append_page ==
  /\ Len(file) < MaxPages * PageSize
  /\ \E page \in Pages :
       \E o \in append_page(file, page) :
         /\ o.result = "Ok" \/ pm_failures < MaxFailures
         /\ pm_failures' = IF o.result = "Ok" THEN pm_failures ELSE pm_failures + 1
         /\ file' = o.file
         /\ pm_op' = "append_page"
         /\ pm_arg' = [position |-> 0, page |-> page]
         /\ pm_result' = [result |-> o.result, data |-> <<>>, n |-> o.n]
         /\ pm_appended' = IF o.result = "Ok"
                           THEN Append(pm_appended, [page |-> page, position |-> o.n])
                           ELSE pm_appended
  /\ UNCHANGED pm_writes
  /\ UNCHANGED <<lmvars, bufvars>>

\* PageManager::n_pages
PageManager_n_pages ==
  /\ pm_op' = "n_pages"
  /\ pm_arg' = [position |-> 0, page |-> <<>>]
  /\ pm_result' = [result |-> n_pages(file).result, data |-> <<>>, n |-> n_pages(file).n]
  /\ UNCHANGED <<file, pm_appended, pm_writes, pm_failures>>
  /\ UNCHANGED <<lmvars, bufvars>>

NextPages ==
  PageManager_read_page \/ PageManager_write_page \/ PageManager_append_page
    \/ PageManager_n_pages

\* A PageManager used on its own, on an empty file.
SpecPages == Init /\ [][NextPages]_vars

\* ------------------------------------------------------------------ claims
\* Byte i (0-based, as in the code) of the page at position p of the file is
\* on disk and holds b.
DiskByteIs(p, i, b) ==
  /\ p * PageSize + i + 1 <= Len(file)
  /\ file[p * PageSize + i + 1] = b

\* The bytes of an appended record are in the log file, where append put them.
OnDisk(rec) ==
  \A i \in 1..Len(rec.data) : DiskByteIs(rec.position, rec.offset + i - 1, rec.data[i])

\* C1: whenever flush_since_lsn(l) returns Ok and l is the value latest_lsn
\* had right after a successful append, the bytes of that record are in the
\* log file on disk.
C1_WalDurability ==
  (op = "flush_since_lsn" /\ result = "Ok" /\ arg_lsn \in 1..Len(appended))
    => OnDisk(appended[arg_lsn])

\* C2: latest_flushed_lsn changes only in a call whose flush wrote the tail
\* with success, to the value latest_lsn had at that flush; a call whose
\* disk write fails leaves it unchanged.
C2_FlushedLsnOnlyOnSuccess ==
  [][latest_flushed_lsn' # latest_flushed_lsn
       => (flushed' /\ result' = "Ok" /\ latest_flushed_lsn' = latest_lsn)]_vars

\* C3: a failed append (data too long, or the flush of the old tail in a
\* rollover fails) leaves latest_lsn and the tail (bytes, header, position)
\* as they were.
C3_FailedAppendKeepsState ==
  [][(op' = "append" /\ result' # "Ok")
       => (latest_lsn' = latest_lsn /\ tail' = tail)]_vars

\* An append has failed on the I/O error of the rollover's flush, with
\* records in the tail.
C3_Witness ==
  /\ op = "append"
  /\ result = "IoError"
  /\ latest_lsn > 0
  /\ get_offset(tail.data) < PageSize

\* C4: latest_flushed_lsn <= latest_lsn in every reachable state.
C4_FlushedLsnAtMostLsn == latest_flushed_lsn <= latest_lsn

\* A flush has caught up with appended records.
C4_Witness == latest_flushed_lsn = latest_lsn /\ latest_lsn > 1 /\ flushed

\* The offset header of a log page, read as the on-disk format defines it.
Header(data) == data[1] * ByteBase + data[2]

\* A page that holds no record: zero bytes behind a header of page_size.
EmptyPage ==
  [i \in 1..PageSize |->
     IF i = 1 THEN PageSize \div ByteBase
     ELSE IF i = 2 THEN PageSize % ByteBase
     ELSE 0]

\* The log as a reader sees it: the pages from position p back to 0, of each
\* the bytes from its header offset up to page_size.
RECURSIVE ReadBack(_, _)
ReadBack(f, p) ==
  IF p < 0 THEN <<>>
  ELSE LET pg == read_page(f, p).data
       IN  SubSeq(pg, Header(pg) + 1, PageSize) \o ReadBack(f, p - 1)

\* The bytes of the records, most recent record first.
RECURSIVE NewestFirst(_)
NewestFirst(recs) ==
  IF recs = <<>> THEN <<>>
  ELSE recs[Len(recs)].data \o NewestFirst(SubSeq(recs, 1, Len(recs) - 1))

\* C5: after successful appends on a fresh log and a flush, reading the log
\* pages from the tail back to page 0, each from its header offset up to
\* page_size, yields all appended records most recent first; every record
\* lies whole in one page (none lost, duplicated, reordered or split).
C5_ReadBackNewestFirst ==
  (op = "flush" /\ result = "Ok") =>
    /\ \A p \in 0..tail.position : read_page(file, p).result = "Ok"
    /\ ReadBack(file, tail.position) = NewestFirst(appended)
    /\ \A i \in 1..Len(appended) :
         /\ appended[i].offset >= HeaderSize
         /\ appended[i].offset + Len(appended[i].data) <= PageSize
         /\ OnDisk(appended[i])

\* A flush after appends that filled more than one page.
C5_Witness ==
  /\ op = "flush"
  /\ result = "Ok"
  /\ tail.position >= 1
  /\ Len(appended) >= 3
  /\ \E i \in 1..Len(appended) : appended[i].data # appended[1].data

\* The bytes of a tail allocated by a rollover for data: zeros, the data at
\* the right edge and the header in front of it.
FreshTailWith(data) ==
  [i \in 1..PageSize |->
     IF i > PageSize - Len(data) /\ i > HeaderSize THEN data[i - (PageSize - Len(data))]
     ELSE IF i = 1 THEN (PageSize - Len(data)) \div ByteBase
     ELSE IF i = 2 THEN (PageSize - Len(data)) % ByteBase
     ELSE 0]

\* What a rollover does: the old tail is on disk at its position, the new
\* tail is one position further and holds the data alone.
RolledOver ==
  /\ tail'.position = tail.position + 1
  /\ read_page(file', tail.position) = [result |-> "Ok", data |-> tail.data]
  /\ tail'.data = FreshTailWith(arg_data')

\* C6 as claimed: for an append of data with len(data) <= page_size - 2 the
\* tail is replaced if and only if (offset - 2) < len(data): then the old
\* tail is written to disk at its position, the new tail is at position + 1
\* and holds the data alone; when the data fits, the tail position does not
\* change and nothing is written to disk.
C6_RolloverIffNoFit ==
  [][(op' = "append" /\ Len(arg_data') <= PageSize - HeaderSize) =>
       IF Header(tail.data) - HeaderSize < Len(arg_data')
       THEN RolledOver
       ELSE tail'.position = tail.position /\ file' = file]_vars

\* C6 as amended: the tail is replaced if and only if the data does not fit
\* and the flush of the old tail succeeds; when that flush fails, the append
\* returns the I/O error and the tail stays as it was.
C6_RolloverIffNoFitAndFlushed ==
  [][(op' = "append" /\ Len(arg_data') <= PageSize - HeaderSize) =>
       IF Header(tail.data) - HeaderSize < Len(arg_data')
       THEN IF result' = "Ok"
            THEN RolledOver
            ELSE result' = "IoError" /\ tail' = tail
       ELSE /\ result' = "Ok"
            /\ tail'.position = tail.position
            /\ file' = file]_vars

\* An append has rolled over a tail that still had free space: page 0 on
\* disk is the old tail, the new tail is at position 1.
C6_Witness ==
  /\ op = "append"
  /\ result = "Ok"
  /\ flushed
  /\ tail.position = 1
  /\ Len(file) = PageSize
  /\ Header(SubSeq(file, 1, PageSize)) > HeaderSize

C8_SizeLimit ==
  [][op' = "append" =>
       /\ (Len(arg_data') > PageSize - HeaderSize => result' = "InvalidInput")
       /\ (Len(arg_data') = PageSize - HeaderSize /\ Header(tail.data) = PageSize
             => result' = "Ok")]_vars

\* Data of exactly page_size - 2 bytes has been appended to the empty tail.
C8_Witness ==
  /\ op = "append"
  /\ result = "Ok"
  /\ Len(arg_data) = PageSize - HeaderSize
  /\ ~flushed
  /\ Len(appended) = 1

\* C9: latest_lsn starts at 0, grows by exactly 1 in each successful append
\* (whatever the length of the data, with or without rollover) and is
\* changed by nothing else: it equals the number of successful appends.
C9_LsnCountsAppends ==
  /\ latest_lsn = 0
  /\ [](latest_lsn = Len(appended))
  /\ [][latest_lsn' = IF op' = "append" /\ result' = "Ok"
                      THEN latest_lsn + 1
                      ELSE latest_lsn]_vars

\* Records of different lengths have been appended across a rollover.
C9_Witness ==
  /\ latest_lsn >= 3
  /\ tail.position >= 1
  /\ \E i \in 1..Len(appended) : Len(appended[i].data) # Len(appended[1].data)

\* C10: a successful flush leaves the page at the tail's position on disk
\* equal to the tail, sets latest_flushed_lsn to latest_lsn and does not
\* change the tail; a second flush right after it changes neither the disk
\* nor the manager.
C10_FlushWritesTail ==
  [][(op' = "flush" /\ result' = "Ok") =>
       /\ read_page(file', tail.position) = [result |-> "Ok", data |-> tail.data]
       /\ latest_flushed_lsn' = latest_lsn
       /\ latest_lsn' = latest_lsn
       /\ tail' = tail
       /\ (op = "flush" /\ result = "Ok") =>
            (file' = file /\ latest_flushed_lsn' = latest_flushed_lsn)]_vars

\* A tail with records in it, beyond page 0, has been flushed.
C10_Witness ==
  /\ op = "flush"
  /\ result = "Ok"
  /\ tail.position >= 1
  /\ Header(tail.data) < PageSize
  /\ Len(file) = (tail.position + 1) * PageSize

\* C13: flush_since_lsn(lsn) performs a flush if and only if
\* lsn >= latest_flushed_lsn (a flush that succeeds leaves the tail on disk
\* and latest_flushed_lsn = latest_lsn); when lsn < latest_flushed_lsn it
\* returns Ok and changes neither the disk, the tail, latest_lsn nor
\* latest_flushed_lsn.
C13_FlushSinceLsnIffNotBelow ==
  [][op' = "flush_since_lsn" =>
       /\ flushed' <=> (arg_lsn' >= latest_flushed_lsn)
       /\ (arg_lsn' >= latest_flushed_lsn /\ result' = "Ok") =>
            /\ read_page(file', tail.position) = [result |-> "Ok", data |-> tail.data]
            /\ latest_flushed_lsn' = latest_lsn
       /\ arg_lsn' < latest_flushed_lsn =>
            /\ result' = "Ok"
            /\ file' = file
            /\ tail' = tail
            /\ latest_lsn' = latest_lsn
            /\ latest_flushed_lsn' = latest_flushed_lsn]_vars

\* flush_since_lsn has been called with an lsn below latest_flushed_lsn
\* while the tail on disk is stale, and has not flushed.
C13_Witness ==
  /\ op = "flush_since_lsn"
  /\ ~flushed
  /\ arg_lsn < latest_flushed_lsn
  /\ latest_flushed_lsn < latest_lsn
  /\ read_page(file, tail.position).data # tail.data

\* C19: the pages a rollover left behind are permanent: no append, flush or
\* flush_since_lsn changes the on-disk content of a page at a position
\* below the tail's.
C19_PagesBelowTailPermanent ==
  [][\A p \in 0..(tail.position - 1) :
       /\ read_page(file, p).result = "Ok"
       /\ read_page(file', p) = read_page(file, p)]_vars

\* After a rollover the new tail has been flushed, with success or not,
\* behind the page that was left.
C19_Witness ==
  /\ tail.position >= 1
  /\ op \in {"flush", "flush_since_lsn"}
  /\ flushed
  /\ Len(file) > tail.position * PageSize

\* The records appended at page position p, oldest first.
RecordsAt(p) == SelectSeq(appended, LAMBDA r : r.position = p)

\* The page is a former tail holding the records recs: a header that points
\* at the newest record, zero bytes of free space, the records newest first.
IsPageOf(pg, recs) ==
  /\ Header(pg) = PageSize - Len(NewestFirst(recs))
  /\ \A i \in (HeaderSize + 1)..Header(pg) : pg[i] = 0
  /\ SubSeq(pg, Header(pg) + 1, PageSize) = NewestFirst(recs)

\* C20: the log file has no hole and the tail is its last page: the file
\* holds tail.position whole pages (tail not written yet, or only in part)
\* or tail.position + 1 (tail written), nothing beyond, and every page below
\* tail.position is the former tail a flush wrote there.
C20_NoHoleTailLast ==
  /\ Len(file) \div PageSize \in {tail.position, tail.position + 1}
  /\ Len(file) <= (tail.position + 1) * PageSize
  /\ \A p \in 0..(tail.position - 1) :
       /\ read_page(file, p).result = "Ok"
       /\ IsPageOf(read_page(file, p).data, RecordsAt(p))

\* Two rollovers have happened and the third tail is not on disk yet.
C20_Witness ==
  /\ tail.position >= 2
  /\ Len(file) = tail.position * PageSize

\* C11: reopening a LogManager on a file that the previous instance has
\* just flushed with success yields a tail with the bytes and the position
\* of the previous instance's tail, which is the last page on disk
\* (position n_pages - 1), and latest_lsn = latest_flushed_lsn = 0.
C11_ReopenRestoresTail ==
  [][(op' = "new" /\ op = "flush" /\ result = "Ok") =>
       /\ tail' = tail
       /\ n_pages(file).result = "Ok"
       /\ tail'.position = n_pages(file).n - 1
       /\ latest_lsn' = 0
       /\ latest_flushed_lsn' = 0]_vars

\* A LogManager has been opened on a file of several pages: its tail is the
\* last page, with records in it.
C11_Witness ==
  /\ op = "new"
  /\ tail.position >= 1
  /\ Header(tail.data) < PageSize
  /\ Len(file) = (tail.position + 1) * PageSize
  /\ Len(appended) >= 2

C14_UnpinAtZeroCaught ==
  [][buf_op' = "unpin" =>
       /\ buffer.pins = 0 => panicked'
       /\ buffer'.pins <= buffer.pins
       /\ is_pinned(buffer'.pins) => is_pinned(buffer.pins)]_vars

\* C15: for a new Buffer and calls of pin and unpin in which every unpin
\* finds a pin count > 0, the pin count is the number of pin calls minus the
\* number of unpin calls, and is_pinned() is true exactly when that number
\* is > 0; a new buffer is not pinned.
C15_PinCountIsBalance ==
  /\ ~misused =>
       /\ buffer.pins = n_pin - n_unpin
       /\ is_pinned(buffer.pins) <=> (n_pin - n_unpin > 0)
  /\ (n_pin = 0 /\ n_unpin = 0) => ~is_pinned(buffer.pins)

\* A buffer is still pinned after pins and an unpin, none of them misused.
C15_Witness ==
  /\ ~misused
  /\ n_pin >= 2
  /\ n_unpin >= 1
  /\ buf_op = "unpin"
  /\ is_pinned(buffer.pins)

\* C16: mark_modified(tx_id, lsn) sets the transaction id to tx_id, sets the
\* stored LSN to lsn when lsn > 0 and leaves it when lsn <= 0, and changes
\* neither the pin count, the page reference nor the page position.
C16_MarkModified ==
  [][buf_op' = "mark_modified" =>
       /\ buffer'.tx_id = buf_arg'.tx_id
       /\ buffer'.lsn = IF buf_arg'.lsn > 0 THEN buf_arg'.lsn ELSE buffer.lsn
       /\ buffer'.pins = buffer.pins
       /\ buffer'.page = buffer.page
       /\ buffer'.page_position = buffer.page_position]_vars

\* A pinned buffer with a stored LSN has been marked with an LSN of 0 by
\* another transaction: the LSN stayed.
C16_Witness ==
  /\ buf_op = "mark_modified"
  /\ buf_arg.lsn = 0
  /\ buf_arg.tx_id = 7
  /\ buffer.tx_id = 7
  /\ buffer.lsn = 5
  /\ buffer.pins > 0

\* C17: on a PageManager over an initially empty file the i-th successful
\* append_page (i = 0, 1, 2, ...) returns position i, n_pages() after k
\* appends is k, and read_page(i) then returns the i-th appended page.
C17_AppendPagePositions ==
  (pm_op = "append_page" /\ pm_result.result = "Ok" /\ pm_writes = 0) =>
    LET k == Len(pm_appended)
    IN  /\ pm_result.n = k - 1
        /\ \A i \in 1..k : pm_appended[i].position = i - 1
        /\ n_pages(file) = [result |-> "Ok", n |-> k]
        /\ \A i \in 1..k :
             read_page(file, i - 1) = [result |-> "Ok", data |-> pm_appended[i].page]

\* C18: read_page(p) fails with an I/O error whenever p >= n_pages() and
\* leaves the file unchanged; after a successful write_page(p, page),
\* read_page(p) succeeds and returns the bytes of page, and the pages at the
\* other existing positions are unchanged.
C18_ReadBeyondEndWriteThenRead ==
  [][/\ (pm_op' = "read_page" /\ pm_arg'.position >= Len(file) \div PageSize) =>
          (pm_result'.result = "IoError" /\ file' = file)
     /\ (pm_op' = "write_page" /\ pm_result'.result = "Ok") =>
          /\ read_page(file', pm_arg'.position) =
               [result |-> "Ok", data |-> pm_arg'.page]
          /\ \A q \in 0..(Len(file) \div PageSize - 1) :
               q # pm_arg'.position => read_page(file', q) = read_page(file, q)]_vars

\* A page has been written beyond the end of a file that already held a
\* page, where read_page failed before.
C18_Witness ==
  /\ pm_op = "write_page"
  /\ pm_result.result = "Ok"
  /\ pm_arg.position = 2
  /\ Len(file) = 3 * PageSize
  /\ read_page(file, 0).data \in Pages
  /\ read_page(file, 0).data # pm_arg.page
====
